---- MODULE Spec2Model ----
(***************************************************************************)
(* A model of jshellen::SmartMemoryPool (src/inc/SmartMemoryPool.hh): a    *)
(* fixed-capacity pool whose free slots form a Treiber stack threaded      *)
(* through the slab, handing out unique_ptr handles whose SmartDeleter     *)
(* holds a weak_ptr to the pool's identity token.                          *)
(*                                                                         *)
(* Every shared-memory access of allocate / deallocate / construct /       *)
(* destruct / SmartDeleter::operator() / ~SmartMemoryPool is one action.   *)
(*                                                                         *)
(* Addresses: slab element mPool[i] has address i + 1; nullptr is NULL;    *)
(* WILD is a pointer value that addresses no object: neither null nor a    *)
(* slab element; dereferencing it faults and ends the process.             *)
(* A slot whose storage holds a value_type (mStorage is the active union   *)
(* member) has content VAL: reading its mNext yields an arbitrary pointer. *)
(*                                                                         *)
(* mAvailable is a std::atomic<uint64_t>.  Its value v mod 2^64 is kept as *)
(* the signed representative of the residue class: a negative number -k    *)
(* stands for the wrapped value 2^64 - k.                                  *)
(*                                                                         *)
(* Spec is the pool holding a value_type whose constructor returns; in     *)
(* SpecThrow the constructor may also throw (one thread).                  *)
(***************************************************************************)
EXTENDS Integers, Sequences, FiniteSets, Bags, TLC

\* ---- bounds of the model ------------------------------------------------
NumThreads == 2
\* largest capacity explored with two or more threads
MaxCapacity == 2
\* largest capacity explored with a single thread
MaxCapacitySeq == 3
\* handles (null ones included) that may exist beyond the capacity
MaxExtraHandles == 1
\* how many consecutive releases the single-threaded release log remembers
LifoWindow == 3

\* ---- pointer values -----------------------------------------------------
NULL == 0
WILD == -1
VAL == -2

VARIABLES
    threads,      \* the threads that use the pool
    mCapacity,    \* const uint64_t mCapacity
    mPool,        \* the slab: slot address -> content (a link, or VAL)
    mNextFree,    \* std::atomic<MemoryBlock*> mNextFree
    mAvailable,   \* std::atomic<uint64_t> mAvailable
    poolState,    \* "alive" | "dying" (mThisPtr destroyed) | "dead" (slab freed)
    handles,      \* bag of the pointers held by the unique_ptr handles in existence
    pc,           \* per thread: the statement it is about to execute
    op,           \* per thread: the outermost call it is in
    item,         \* per thread: allocate's item / deallocate's item / the handle's pointer
    next,         \* per thread: the value read from item->mNext for the compare-exchange
    obs,          \* per thread: what the current call has done so far (history)
    crashed,      \* the process dereferenced WILD or freed memory and died
    absStack,     \* history: the atomic stack the head's successful CASes describe
    linOK,        \* history: every claim so far returned what absStack would have
    relLog,       \* history (single thread): slots released and not yet re-claimed
    fresh         \* history: only construct calls were made since the constructor

vars == <<threads, mCapacity, mPool, mNextFree, mAvailable, poolState, handles,
          pc, op, item, next, obs, crashed, absStack, linOK, relLog, fresh>>

ThreadIds == 1..NumThreads
Slots == 1..mCapacity
Ptr == Slots \cup {NULL, WILD}

\* mPool[i] of the source is the slot at address i + 1
Addr(i) == i + 1

SingleThreaded == Cardinality(threads) = 1

\* what a call has done so far: destructor runs, deallocate calls, reads and
\* writes of the pool's head / links / counter, the pool's state when the call
\* began, the slot the release log said the next claim must return with the
\* length of that log, the successful pushes and counter increments, and the
\* value deallocate last saw in the head while its compare-exchange is pending
NoObs == [dtor |-> 0, dealloc |-> 0, rd |-> FALSE, wr |-> FALSE, poolAtCall |-> "none",
          expect |-> NULL, depth |-> 0, push |-> 0, inc |-> 0, head |-> NULL]

\* (the linking loop forgotten: every element keeps its zeroed link)
InitPool_Unlinked(cap) == [s \in 1..cap |-> NULL]

\* the slab as the constructor leaves it: make_unique<MemoryBlock[]> zeroes
\* the array, the loop links element i-1 to element i
InitPool(cap) == [s \in 1..cap |-> IF s < cap THEN Addr(s) ELSE NULL]

InitWith(T, caps) ==
    /\ threads = T
    /\ mCapacity \in caps
    /\ mPool = InitPool(mCapacity)
    /\ mNextFree = Addr(0)
    /\ mAvailable = mCapacity
    /\ poolState = "alive"
    /\ handles = EmptyBag
    /\ pc = [t \in ThreadIds |-> "idle"]
    /\ op = [t \in ThreadIds |-> "none"]
    /\ item = [t \in ThreadIds |-> NULL]
    /\ next = [t \in ThreadIds |-> NULL]
    /\ obs = [t \in ThreadIds |-> NoObs]
    /\ crashed = FALSE
    /\ absStack = [i \in 1..mCapacity |-> i]
    /\ linOK = TRUE
    /\ relLog = <<>>
    /\ fresh = TRUE

Init ==
    \/ InitWith({1}, 1..MaxCapacitySeq)
    \/ InitWith(ThreadIds, 1..MaxCapacity)

\* ---- helpers ------------------------------------------------------------
NonNull(b) == BagCardinality(b) - CopiesIn(NULL, b)

InConstruct == {t \in ThreadIds : op[t] = "construct"}

\* a weak_ptr::lock() succeeds while any shared_ptr to the token exists: the
\* pool's mThisPtr, or the local `pool` of a deleter that is running
HoldsToken(t) == op[t] = "release" /\ pc[t] \in {"r_dtor", "d_load", "d_store", "d_cas", "d_inc", "r_unlock"}
TokenAlive == poolState = "alive" \/ \E t \in ThreadIds : HoldsToken(t)

Read(t) == [obs EXCEPT ![t].rd = TRUE]
Write(t) == [obs EXCEPT ![t].wr = TRUE]
ReadWrite(t) == [obs EXCEPT ![t].rd = TRUE, ![t].wr = TRUE]

Goto(t, newpc) == pc' = [pc EXCEPT ![t] = newpc]

Running(t, at) == ~crashed /\ t \in threads /\ pc[t] = at

\* the process dies: nothing runs afterwards
Crash ==
    /\ crashed' = TRUE
    /\ UNCHANGED <<threads, mCapacity, fresh, mPool, mNextFree, mAvailable, poolState, handles,
                   pc, op, item, next, obs, absStack, linOK, relLog>>

\* the pool object and its slab are freed memory
Freed == poolState = "dead"

\* the value a read of s->mNext yields: the link stored there, or, when the
\* storage holds a value (or s is no slab element, or the slab is freed), any
\* pointer value
LinkValues(s) == IF ~Freed /\ s \in Slots /\ mPool[s] # VAL THEN {mPool[s]} ELSE Ptr

\* the value a load of mNextFree yields
HeadValues == IF Freed THEN Ptr ELSE {mNextFree}

\* a store to s->mNext / a placement new into s: outside the slab, or into
\* freed memory, it changes nothing the model tracks
Store(s, v) == IF ~Freed /\ s \in Slots THEN [mPool EXCEPT ![s] = v] ELSE mPool

\* a store to mNextFree / to mAvailable
StoreHead(v) == IF Freed THEN mNextFree ELSE v
StoreAvailable(v) == IF Freed THEN mAvailable ELSE v

\* dereferencing p kills the process when p is WILD, and may kill it when the
\* pool's memory is freed (or the access goes through, on whatever is there)
Faults(p) == p = WILD
MayFault(p) == Faults(p) \/ Freed

First(n, q) == SubSeq(q, 1, IF Len(q) < n THEN Len(q) ELSE n)

\* ---- allocate (called by construct) -------------------------------------

\* construct(args...) is entered: a call on a live pool
ConstructCall(t) ==
    /\ Running(t, "idle")
    /\ poolState = "alive"
    /\ BagCardinality(handles) + Cardinality(InConstruct) < mCapacity + MaxExtraHandles
    /\ op' = [op EXCEPT ![t] = "construct"]
    /\ obs' = [obs EXCEPT ![t] = [NoObs EXCEPT !.poolAtCall = poolState]]
    /\ Goto(t, "a_load")
    /\ UNCHANGED <<threads, mCapacity, fresh, mPool, mNextFree, mAvailable, poolState, handles,
                   item, next, crashed, absStack, linOK, relLog>>

\* an exhausted claim takes effect where it observes the null head
ObservedEmpty(h) == IF h = NULL THEN linOK /\ absStack = <<>> ELSE linOK

\* auto item = mNextFree.load();
AllocLoad(t) ==
    /\ Running(t, "a_load")
    /\ item' = [item EXCEPT ![t] = mNextFree]
    /\ obs' = Read(t)
    /\ linOK' = ObservedEmpty(mNextFree)
    /\ absStack' = IF linOK' THEN absStack ELSE <<>>
    /\ Goto(t, IF mNextFree = NULL THEN "a_none" ELSE "a_read")
    /\ UNCHANGED <<threads, mCapacity, fresh, mPool, mNextFree, mAvailable, poolState, handles,
                   op, next, crashed, relLog>>

\* the argument item->mNext of compare_exchange_strong is read before the call
AllocReadNext(t) ==
    /\ Running(t, "a_read")
    /\ \/ /\ MayFault(item[t])
          /\ Crash
       \/ /\ ~Faults(item[t])
          /\ \E v \in LinkValues(item[t]) : next' = [next EXCEPT ![t] = v]
          /\ obs' = Read(t)
          /\ Goto(t, "a_cas")
          /\ UNCHANGED <<threads, mCapacity, fresh, mPool, mNextFree, mAvailable, poolState,
                         handles, op, item, crashed, absStack, linOK, relLog>>

\* the head popped by a successful compare-exchange
AllocCASHead(t) == next[t]

\* mNextFree.compare_exchange_strong(item, item->mNext), and the loop test
AllocCAS(t) ==
    /\ Running(t, "a_cas")
    /\ IF mNextFree = item[t]
       THEN /\ mNextFree' = AllocCASHead(t)
            /\ obs' = [ReadWrite(t) EXCEPT
                          ![t].expect = IF relLog # <<>> THEN Head(relLog) ELSE NULL,
                          ![t].depth = Len(relLog)]
            /\ linOK' = (linOK /\ absStack # <<>> /\ Head(absStack) = item[t])
            /\ absStack' = IF linOK' THEN Tail(absStack) ELSE <<>>
            /\ relLog' = IF relLog # <<>> THEN Tail(relLog) ELSE relLog
            /\ Goto(t, "c_dec")
            /\ UNCHANGED item
       ELSE /\ item' = [item EXCEPT ![t] = mNextFree]
            /\ obs' = Read(t)
            /\ linOK' = ObservedEmpty(mNextFree)
            /\ absStack' = IF linOK' THEN absStack ELSE <<>>
            /\ Goto(t, IF mNextFree = NULL THEN "a_none" ELSE "a_read")
            /\ UNCHANGED <<mNextFree, relLog>>
    /\ next' = [next EXCEPT ![t] = NULL]
    /\ UNCHANGED <<threads, mCapacity, fresh, mPool, mAvailable, poolState, handles, op,
                   crashed>>

\* ---- construct ----------------------------------------------------------

\* (the decrement placed before the has_value test)
ExhaustedAvailable_Decremented == mAvailable - 1

\* what construct does to the counter when allocate returned nullopt
ExhaustedAvailable == mAvailable

\* if (item == nullptr) return std::nullopt;  and construct's
\* if (!maybe_mem.has_value()) { ... unique_ptr(nullptr, SmartDeleter) ... }
ConstructExhausted(t) ==
    /\ Running(t, "a_none")
    /\ item' = [item EXCEPT ![t] = NULL]
    /\ mAvailable' = ExhaustedAvailable
    /\ obs' = IF mAvailable' # mAvailable THEN Write(t) ELSE obs
    /\ Goto(t, "c_ret")
    /\ UNCHANGED <<threads, mCapacity, fresh, mPool, mNextFree, poolState, handles, op, next,
                   crashed, absStack, linOK, relLog>>

\* (the decrement forgotten)
ClaimedAvailable_NoDecrement == mAvailable

\* the counter after construct has claimed a slot
ClaimedAvailable == mAvailable - 1

\* mAvailable--;
ConstructDec(t) ==
    /\ Running(t, "c_dec")
    /\ mAvailable' = ClaimedAvailable
    /\ obs' = ReadWrite(t)
    /\ Goto(t, "c_new")
    /\ UNCHANGED <<threads, mCapacity, fresh, mPool, mNextFree, poolState, handles, op, item,
                   next, crashed, absStack, linOK, relLog>>

\* new (maybe_mem.value()) value_type(args...); the handle is then built
ConstructNew(t) ==
    /\ Running(t, "c_new")
    /\ \/ /\ MayFault(item[t])
          /\ Crash
       \/ /\ ~Faults(item[t])
          /\ mPool' = Store(item[t], VAL)
          /\ Goto(t, "c_ret")
          /\ UNCHANGED <<threads, mCapacity, fresh, mNextFree, mAvailable, poolState, handles,
                         op, item, next, obs, crashed, absStack, linOK, relLog>>

\* return std::move(new_unique_ptr): the caller now holds the handle
ConstructReturn(t) ==
    /\ Running(t, "c_ret")
    /\ handles' = handles (+) SetToBag({item[t]})
    /\ op' = [op EXCEPT ![t] = "none"]
    /\ item' = [item EXCEPT ![t] = NULL]
    /\ next' = [next EXCEPT ![t] = NULL]
    /\ obs' = [obs EXCEPT ![t] = NoObs]
    /\ Goto(t, "idle")
    /\ UNCHANGED <<threads, mCapacity, fresh, mPool, mNextFree, mAvailable, poolState,
                   crashed, absStack, linOK, relLog>>

\* ---- handle release: unique_ptr's destructor and SmartDeleter -----------

\* whether ~unique_ptr invokes the deleter on pointer h: only when non-null
InvokesDeleter(h) == h # NULL

\* a handle goes out of scope
ReleaseCall(t, h) ==
    /\ Running(t, "idle")
    /\ BagIn(h, handles)
    /\ handles' = handles (-) SetToBag({h})
    /\ op' = [op EXCEPT ![t] = "release"]
    /\ item' = [item EXCEPT ![t] = h]
    /\ obs' = [obs EXCEPT ![t] = [NoObs EXCEPT !.poolAtCall = poolState]]
    /\ Goto(t, IF InvokesDeleter(h) THEN "r_lock" ELSE "ret")
    /\ fresh' = FALSE
    /\ UNCHANGED <<threads, mCapacity, mPool, mNextFree, mAvailable, poolState, next,
                   crashed, absStack, linOK, relLog>>

\* if (auto pool = mParentPool.lock())
DeleterLock(t) ==
    /\ Running(t, "r_lock")
    /\ Goto(t, IF TokenAlive THEN "r_dtor" ELSE "ret")
    /\ UNCHANGED <<threads, mCapacity, fresh, mPool, mNextFree, mAvailable, poolState, handles,
                   op, item, next, obs, crashed, absStack, linOK, relLog>>

\* ptr->~B();  (*pool.get())->deallocate(ptr);  -- the call is entered
DeleterDtor(t) ==
    /\ Running(t, "r_dtor")
    /\ \/ /\ MayFault(item[t])
          /\ Crash
       \/ /\ ~Faults(item[t])
          /\ obs' = [obs EXCEPT ![t].dtor = @ + 1, ![t].dealloc = @ + 1]
          /\ Goto(t, "d_load")
          /\ UNCHANGED <<threads, mCapacity, fresh, mPool, mNextFree, mAvailable, poolState,
                         handles, op, item, next, crashed, absStack, linOK, relLog>>

\* ---- deallocate ---------------------------------------------------------

\* the head value a load or a failed compare-exchange showed the caller
\* (freed memory has no head to speak of)
SeenHead(h) == IF Freed THEN NULL ELSE h

\* mNextFree.load() of  item->mNext = mNextFree.load();
DeallocLoad(t) ==
    /\ Running(t, "d_load")
    /\ \/ /\ Freed
          /\ Crash
       \/ /\ \E h \in HeadValues :
                /\ next' = [next EXCEPT ![t] = h]
                /\ obs' = [Read(t) EXCEPT ![t].head = SeenHead(h)]
          /\ Goto(t, "d_store")
          /\ UNCHANGED <<threads, mCapacity, fresh, mPool, mNextFree, mAvailable, poolState,
                         handles, op, item, crashed, absStack, linOK, relLog>>

\* the store of  item->mNext = mNextFree.load();
DeallocStore(t) ==
    /\ Running(t, "d_store")
    /\ \/ /\ MayFault(item[t])
          /\ Crash
       \/ /\ ~Faults(item[t])
          /\ mPool' = Store(item[t], next[t])
          /\ next' = [next EXCEPT ![t] = NULL]
          /\ obs' = Write(t)
          /\ Goto(t, "d_cas")
          /\ UNCHANGED <<threads, mCapacity, fresh, mNextFree, mAvailable, poolState, handles,
                         op, item, crashed, absStack, linOK, relLog>>

\* (the compare-exchange stores the old head back: the slot is not pushed)
DeallocCASHead_NotPushed(t) == mNextFree

\* the head pushed by a successful compare-exchange
DeallocCASHead(t) == item[t]

\* while (!mNextFree.compare_exchange_strong(item->mNext, item)){}
\* on failure the expected operand item->mNext receives the current head
DeallocCAS(t) ==
    /\ Running(t, "d_cas")
    /\ \/ /\ MayFault(item[t])
          /\ Crash
       \/ /\ ~Faults(item[t])
          /\ \E e \in LinkValues(item[t]), h \in HeadValues :
                IF h = e
                THEN /\ mNextFree' = StoreHead(DeallocCASHead(t))
                     /\ absStack' = IF linOK /\ ~Freed THEN <<item[t]>> \o absStack
                                    ELSE absStack
                     /\ relLog' = IF SingleThreaded /\ ~Freed
                                  THEN First(LifoWindow, <<item[t]>> \o relLog)
                                  ELSE relLog
                     /\ obs' = [ReadWrite(t) EXCEPT ![t].push = @ + 1, ![t].head = NULL]
                     /\ Goto(t, "d_inc")
                     /\ UNCHANGED mPool
                ELSE /\ mPool' = Store(item[t], h)
                     /\ obs' = [ReadWrite(t) EXCEPT ![t].head = SeenHead(h)]
                     /\ Goto(t, "d_cas")
                     /\ UNCHANGED <<mNextFree, absStack, relLog>>
          /\ UNCHANGED <<threads, mCapacity, fresh, mAvailable, poolState, handles, op, item,
                         next, crashed, linOK>>

\* where destruct(p) returns to: destruct(unique_ptr) still has its by-value
\* parameter to destroy
AfterDestruct(t) == IF op[t] = "destructH" THEN "x_param" ELSE "ret"

\* (the increment forgotten)
ReleasedAvailable_NoIncrement == mAvailable

\* the counter after a slot was pushed back
ReleasedAvailable == mAvailable + 1

\* mAvailable++;  and the return to the caller
DeallocInc(t) ==
    /\ Running(t, "d_inc")
    /\ \/ /\ Freed
          /\ Crash
       \/ /\ mAvailable' = StoreAvailable(ReleasedAvailable)
          /\ obs' = [ReadWrite(t) EXCEPT ![t].inc = @ + 1]
          /\ Goto(t, IF op[t] = "release" THEN "r_unlock" ELSE AfterDestruct(t))
          /\ UNCHANGED <<threads, mCapacity, fresh, mPool, mNextFree, poolState, handles, op,
                         item, next, crashed, absStack, linOK, relLog>>

\* the closing brace of the deleter's if: the shared_ptr `pool` is destroyed
DeleterUnlock(t) ==
    /\ Running(t, "r_unlock")
    /\ Goto(t, "ret")
    /\ UNCHANGED <<threads, mCapacity, fresh, mPool, mNextFree, mAvailable, poolState, handles,
                   op, item, next, obs, crashed, absStack, linOK, relLog>>

\* ---- destruct -----------------------------------------------------------

\* destruct(unique_ptr p):  auto t_ptr = p.release();  destruct(t_ptr);
\* the caller's handle was moved into p; item is t_ptr
DestructHandleCall(t, h) ==
    /\ Running(t, "idle")
    /\ poolState = "alive"
    /\ BagIn(h, handles)
    /\ handles' = handles (-) SetToBag({h})
    /\ op' = [op EXCEPT ![t] = "destructH"]
    /\ item' = [item EXCEPT ![t] = h]
    /\ obs' = [obs EXCEPT ![t] = [NoObs EXCEPT !.poolAtCall = poolState]]
    /\ Goto(t, "x_check")
    /\ fresh' = FALSE
    /\ UNCHANGED <<threads, mCapacity, mPool, mNextFree, mAvailable, poolState, next,
                   crashed, absStack, linOK, relLog>>

\* destruct(DerivedType* p) called by the user with nullptr.  (With the pointer
\* the caller took out of a handle by unique_ptr::release() the call is what
\* DestructHandleCall does: the same statements from here on.)
DestructRawCall(t, p) ==
    /\ Running(t, "idle")
    /\ poolState = "alive"
    /\ p = NULL
    /\ handles' = handles
    /\ op' = [op EXCEPT ![t] = "destructP"]
    /\ item' = [item EXCEPT ![t] = p]
    /\ obs' = [obs EXCEPT ![t] = [NoObs EXCEPT !.poolAtCall = poolState]]
    /\ Goto(t, "x_check")
    /\ fresh' = FALSE
    /\ UNCHANGED <<threads, mCapacity, mPool, mNextFree, mAvailable, poolState, next,
                   crashed, absStack, linOK, relLog>>

\* (the null test forgotten)
DestructSkips_Never(p) == FALSE

\* whether destruct(p) returns at once
DestructSkips(p) == p = NULL

\* if (p == nullptr) return;
DestructCheck(t) ==
    /\ Running(t, "x_check")
    /\ Goto(t, IF DestructSkips(item[t]) THEN AfterDestruct(t) ELSE "x_dtor")
    /\ UNCHANGED <<threads, mCapacity, fresh, mPool, mNextFree, mAvailable, poolState, handles,
                   op, item, next, obs, crashed, absStack, linOK, relLog>>

\* p->~value_type();  deallocate(p);  -- the call is entered
DestructDtor(t) ==
    /\ Running(t, "x_dtor")
    /\ \/ /\ MayFault(item[t])
          /\ Crash
       \/ /\ ~Faults(item[t])
          /\ obs' = [obs EXCEPT ![t].dtor = @ + 1, ![t].dealloc = @ + 1]
          /\ Goto(t, "d_load")
          /\ UNCHANGED <<threads, mCapacity, fresh, mPool, mNextFree, mAvailable, poolState,
                         handles, op, item, next, crashed, absStack, linOK, relLog>>

\* (p.get() in place of p.release(): the handle keeps its pointer)
ReleasedHandle_Kept(h) == h

\* what the handle p holds after  auto t_ptr = p.release();
ReleasedHandle(h) == NULL

\* destruct(unique_ptr p) returns: its parameter p is destroyed, which runs
\* the deleter when p still holds a pointer
DestructParamDtor(t) ==
    /\ Running(t, "x_param")
    /\ IF InvokesDeleter(ReleasedHandle(item[t]))
       THEN /\ op' = [op EXCEPT ![t] = "release"]
            /\ Goto(t, "r_lock")
       ELSE /\ Goto(t, "ret")
            /\ UNCHANGED op
    /\ UNCHANGED <<threads, mCapacity, fresh, mPool, mNextFree, mAvailable, poolState, handles,
                   item, next, obs, crashed, absStack, linOK, relLog>>

\* a release or destruct call returns (or an exception leaves construct)
Return(t) ==
    /\ Running(t, "ret")
    /\ op' = [op EXCEPT ![t] = "none"]
    /\ item' = [item EXCEPT ![t] = NULL]
    /\ next' = [next EXCEPT ![t] = NULL]
    /\ obs' = [obs EXCEPT ![t] = NoObs]
    /\ Goto(t, "idle")
    /\ UNCHANGED <<threads, mCapacity, fresh, mPool, mNextFree, mAvailable, poolState, handles,
                   crashed, absStack, linOK, relLog>>

\* ---- ~SmartMemoryPool ---------------------------------------------------

\* calls on the pool object itself; destroying the pool during one is misuse
InPoolCall(t) == op[t] \in {"construct", "destructH", "destructP"}

\* ~SmartMemoryPool() = default: members die in reverse order, mThisPtr first
PoolDtorToken(t) ==
    /\ Running(t, "idle")
    /\ poolState = "alive"
    /\ \A u \in ThreadIds : ~InPoolCall(u)
    /\ poolState' = "dying"
    /\ op' = [op EXCEPT ![t] = "pooldtor"]
    /\ Goto(t, "p_slab")
    /\ fresh' = FALSE
    /\ UNCHANGED <<threads, mCapacity, mPool, mNextFree, mAvailable, handles, item, next,
                   obs, crashed, absStack, linOK, relLog>>

\* ... and mPool, the slab, last
\* (freed memory has no content: the pool's variables get placeholder values
\* that no action reads again, see Freed)
PoolDtorSlab(t) ==
    /\ Running(t, "p_slab")
    /\ poolState' = "dead"
    /\ mPool' = [s \in Slots |-> VAL]
    /\ mNextFree' = NULL
    /\ mAvailable' = 0
    /\ absStack' = <<>>
    /\ relLog' = <<>>
    /\ Goto(t, "ret")
    /\ UNCHANGED <<threads, mCapacity, fresh, handles, op, item, next, obs, crashed, linOK>>

\* ---- the system ---------------------------------------------------------
Next ==
    \E t \in ThreadIds :
        \/ ConstructCall(t)
        \/ AllocLoad(t)
        \/ AllocReadNext(t)
        \/ AllocCAS(t)
        \/ ConstructExhausted(t)
        \/ ConstructDec(t)
        \/ ConstructNew(t)
        \/ ConstructReturn(t)
        \/ \E h \in Ptr : ReleaseCall(t, h)
        \/ DeleterLock(t)
        \/ DeleterDtor(t)
        \/ DeallocLoad(t)
        \/ DeallocStore(t)
        \/ DeallocCAS(t)
        \/ DeallocInc(t)
        \/ DeleterUnlock(t)
        \/ \E h \in Ptr : DestructHandleCall(t, h)
        \/ DestructRawCall(t, NULL)
        \/ DestructCheck(t)
        \/ DestructDtor(t)
        \/ DestructParamDtor(t)
        \/ Return(t)
        \/ PoolDtorToken(t)
        \/ PoolDtorSlab(t)

Spec == Init /\ [][Next]_vars

\* ---- value types whose constructor may throw ---------------------------

\* new (maybe_mem.value()) value_type(args...) throws: construct has no
\* handler, so the exception leaves construct with the statements after the
\* placement new not executed; the storage holds whatever the constructor
\* wrote before it threw
ConstructThrow(t) ==
    /\ Running(t, "c_new")
    /\ ~MayFault(item[t])
    /\ mPool' = Store(item[t], VAL)
    /\ Goto(t, "ret")
    /\ UNCHANGED <<threads, mCapacity, fresh, mNextFree, mAvailable, poolState, handles,
                   op, item, next, obs, crashed, absStack, linOK, relLog>>

NextThrow == Next \/ \E t \in ThreadIds : ConstructThrow(t)

\* the pool used with such a value type, by one thread
InitThrow == InitWith({1}, 1..MaxCapacitySeq)

SpecThrow == InitThrow /\ [][NextThrow]_vars

\* ---- the free list as the head and the links describe it ----------------

\* the slots met from p by following mNext, at most fuel of them
RECURSIVE Chain(_, _)
Chain(p, fuel) ==
    IF p \notin Slots \/ fuel = 0 THEN <<>> ELSE <<p>> \o Chain(mPool[p], fuel - 1)

\* where that walk stops: NULL for a proper list
RECURSIVE ChainEnd(_, _)
ChainEnd(p, fuel) ==
    IF p \notin Slots \/ fuel = 0 THEN p ELSE ChainEnd(mPool[p], fuel - 1)

FreeList == Chain(mNextFree, mCapacity + 1)

FreeSet == {FreeList[i] : i \in 1..Len(FreeList)}

\* acyclic, ending at the empty sentinel
FreeListProper ==
    /\ ChainEnd(mNextFree, mCapacity + 1) = NULL
    /\ Cardinality(FreeSet) = Len(FreeList)

\* the slots claimed by constructs: held by handles, or by calls past their CAS
Claiming == {t \in ThreadIds : pc[t] \in {"c_dec", "c_new", "c_ret"} /\ item[t] # NULL}
ClaimedSlots == {s \in Slots : CopiesIn(s, handles) > 0} \cup {item[t] : t \in Claiming}
ClaimedCount == NonNull(handles) + Cardinality(Claiming)

\* no call is in progress on a live pool
Quiescent == ~crashed /\ poolState = "alive" /\ \A t \in ThreadIds : pc[t] = "idle"

\* ======================= the claims ======================================

\* C1: with two or more threads and no caller misuse, no reachable state has
\* two live non-null handles holding the same slot address.
C1_NoSharedSlot ==
    ~SingleThreaded => \A s \in Slots : CopiesIn(s, handles) <= 1

\* C2: the number of live non-null handles never exceeds the capacity, and a
\* construct that returns while mCapacity non-null handles are held returns
\* a null handle.
C2_CapacityBound ==
    /\ NonNull(handles) <= mCapacity
    /\ \A t \in ThreadIds :
          (pc[t] = "c_ret" /\ NonNull(handles) >= mCapacity) => item[t] = NULL

\* C3: whenever the automatic release of a handle holding a non-null address
\* has run, the value's destructor has run exactly once, whether or not the
\* pool was still alive.
C3_DestructorOnce ==
    \A t \in ThreadIds :
        (op[t] = "release" /\ pc[t] = "ret" /\ item[t] # NULL) => obs[t].dtor = 1

\* C4: a release that begins after the pool was completely destroyed never
\* calls deallocate and never reads or writes the head, a link or the counter.
C4_NoPoolAccessAfterDestroy ==
    \A t \in ThreadIds :
        (op[t] = "release" /\ obs[t].poolAtCall = "dead")
            => (obs[t].dealloc = 0 /\ ~obs[t].rd /\ ~obs[t].wr)

\* C5: a construct that found the head empty returns a handle holding no
\* address and has written neither the head, nor a link, nor the counter.
C5_ExhaustedLeavesPool ==
    \A t \in ThreadIds :
        /\ pc[t] = "a_none" => ~obs[t].wr
        /\ (op[t] = "construct" /\ pc[t] = "c_ret" /\ item[t] = NULL) => ~obs[t].wr

C5_Witness ==
    \E t \in ThreadIds :
        /\ op[t] = "construct" /\ pc[t] = "c_ret" /\ item[t] = NULL
        /\ NonNull(handles) = mCapacity
        /\ mNextFree = NULL

\* C6: once every handle has been released and no operation is in progress,
\* available() equals the capacity.
C6_AvailableSettles ==
    (Quiescent /\ NonNull(handles) = 0) => mAvailable = mCapacity

C6_Witness ==
    /\ Quiescent /\ ~SingleThreaded
    /\ NonNull(handles) = 0
    /\ mAvailable = mCapacity
    /\ mNextFree # Addr(0)

\* C7: single-threaded, a successful construct receives the slot released
\* last among those released and not yet claimed again: after releases of
\* A, B, C the next three constructs receive C, B, A.
C7_LifoReuse ==
    \A t \in ThreadIds :
        (SingleThreaded /\ op[t] = "construct" /\ pc[t] \in {"c_dec", "c_new", "c_ret"}
            /\ obs[t].expect # NULL)
            => item[t] = obs[t].expect

\* slots 1, 2, 3 were released in that order and the next construct got 3,
\* leaving 2 and then 1 to come
C7_Witness ==
    \E t \in ThreadIds :
        /\ SingleThreaded /\ mCapacity = 3
        /\ op[t] = "construct" /\ pc[t] = "c_ret"
        /\ obs[t].depth = 3 /\ obs[t].expect = 3 /\ item[t] = 3
        /\ relLog = <<2, 1>>

\* C8: every execution of concurrent claims and releases is linearizable to
\* an atomic LIFO stack of slot addresses: taking each operation's effect at
\* its access to the head, every claim returns what the stack would.
C8_Linearizable == linOK

\* C9: whenever no call is in progress, the free list is acyclic and ends at
\* the empty sentinel, and every slot is either on it, or held by exactly one
\* live handle, and never both or neither.
C9_SlotPartition ==
    Quiescent =>
        /\ FreeListProper
        /\ \A s \in Slots :
              \/ s \in FreeSet /\ CopiesIn(s, handles) = 0
              \/ s \notin FreeSet /\ CopiesIn(s, handles) = 1

\* C10: releasing a handle that holds no address (automatic release,
\* destruct(handle), destruct(nullptr)) runs no destructor, calls no
\* deallocate and writes neither the head, nor a link, nor the counter.
C10_NullReleaseNoop ==
    \A t \in ThreadIds :
        (op[t] \in {"release", "destructH", "destructP"} /\ item[t] = NULL)
            => (obs[t].dtor = 0 /\ obs[t].dealloc = 0 /\ ~obs[t].rd /\ ~obs[t].wr)

C10_Witness ==
    \E t, u \in ThreadIds :
        /\ op[t] = "destructH" /\ pc[t] = "ret" /\ item[t] = NULL
        /\ op[u] = "destructP" /\ pc[u] = "ret" /\ item[u] = NULL

\* C11: on a live pool destruct(handle) and the automatic release of a handle
\* do the same: each, once returned for a non-null address, has run the
\* destructor once, pushed the slot once and incremented the counter once
\* (the handle passed to destruct holds nothing afterwards, so its disposal
\* adds no second release); single-threaded both leave the slot at the head
\* of the free list and the counter at capacity minus the handles held.
C11_DestructEqualsRelease ==
    \A t \in ThreadIds :
        (op[t] \in {"release", "destructH"} /\ pc[t] = "ret" /\ item[t] # NULL
            /\ poolState = "alive")
            => /\ obs[t].dtor = 1 /\ obs[t].dealloc = 1
               /\ obs[t].push = 1 /\ obs[t].inc = 1
               /\ SingleThreaded =>
                     /\ mNextFree = item[t]
                     /\ mAvailable = mCapacity - NonNull(handles)
                     /\ FreeListProper
                     /\ \A s \in Slots : (s \in FreeSet) = (CopiesIn(s, handles) = 0)

\* one thread has finished an automatic release, the other a destruct(handle)
C11_Witness ==
    \E t, u \in ThreadIds :
        /\ ~crashed /\ poolState = "alive"
        /\ op[t] = "release" /\ pc[t] = "ret" /\ item[t] # NULL
        /\ op[u] = "destructH" /\ pc[u] = "ret" /\ item[u] # NULL

\* C12: a pool just built with capacity N >= 1 has all N slots free: the free
\* list visits the elements 0, 1, ..., N-1 in index order and ends at the
\* empty sentinel, available() is N, and the first N constructs each succeed
\* with a slot no other construct got (the k claimed so far are the elements
\* 0..k-1, the list holds k..N-1 in order; only then does a construct fail).
C12_FreshPool ==
    fresh =>
        /\ ClaimedCount <= mCapacity
        /\ Cardinality(ClaimedSlots) = ClaimedCount
        /\ FreeList = [i \in 1..(mCapacity - ClaimedCount) |-> Addr(ClaimedCount + i - 1)]
        /\ ChainEnd(mNextFree, mCapacity + 1) = NULL
        /\ (ClaimedCount = 0 /\ \A t \in ThreadIds : pc[t] = "idle") => mAvailable = mCapacity
        /\ \A t \in ThreadIds :
              (pc[t] = "c_ret" /\ item[t] = NULL) => ClaimedCount = mCapacity

\* three constructs on a new pool of capacity 3 returned the three slots
C12_Witness ==
    /\ fresh /\ SingleThreaded /\ mCapacity = 3
    /\ pc[1] = "idle"
    /\ \A s \in Slots : CopiesIn(s, handles) = 1
    /\ mNextFree = NULL

\* deallocate's compare-exchange can fail in this state: the link it compares
\* the head with may differ from the head
DeallocCASMayFail(t) ==
    /\ pc[t] = "d_cas" /\ ~crashed /\ ~Freed /\ item[t] \in Slots
    /\ \E e \in LinkValues(item[t]) : e # mNextFree

\* C13: claim and release are non-blocking and terminate on a live pool:
\* deallocate's compare-exchange fails only when the head is no longer what
\* the caller last saw in it, that is when another thread's compare-exchange
\* succeeded in between (allocate's compares the head with the very value it
\* loaded), and a call that has begun is never left unable to run to its
\* return.
C13_NonBlocking ==
    \A t \in ThreadIds :
        /\ DeallocCASMayFail(t) => mNextFree # obs[t].head
        /\ (op[t] # "none" /\ poolState = "alive") => ~crashed

\* C14: allocate reads item->mNext only from a slot that is not claimed and
\* holding a live value: whenever a call is about to evaluate item->mNext,
\* the storage of that slot holds a link, not a value_type.
C14_ReadsOnlyFreeSlots ==
    \A t \in ThreadIds :
        (pc[t] = "a_read" /\ ~crashed /\ poolState = "alive" /\ item[t] \in Slots)
            => mPool[item[t]] # VAL

\* C15: a deleter whose lock() succeeded works on a valid pool: from the
\* successful lock() until its deallocate has returned, the slab and the
\* head have not been destroyed.
C15_LockKeepsPoolValid ==
    \A t \in ThreadIds :
        (op[t] = "release" /\ pc[t] \in {"r_dtor", "d_load", "d_store", "d_cas", "d_inc"})
            => ~Freed

\* C16: the 64-bit unsigned counter never wraps below zero: construct's
\* decrement is never applied to a counter that is 0, so the counter is
\* never a wrapped value (a negative representative).
C16_NoUnderflow ==
    ~Freed =>
        /\ mAvailable >= 0
        /\ \A t \in ThreadIds : (pc[t] = "c_dec" /\ ~crashed) => mAvailable # 0

\* C17: read as a mathematical integer (capacity - decrements + increments)
\* the counter never exceeds the capacity: a deallocate's increment always
\* comes after the decrement of the construct that handed out the slot.
C17_AtMostCapacity ==
    ~Freed => mAvailable <= mCapacity

\* with two threads a release has just incremented the counter back to the
\* capacity
C17_Witness ==
    \E t \in ThreadIds :
        /\ ~SingleThreaded /\ ~Freed /\ ~crashed
        /\ op[t] = "release" /\ pc[t] = "r_unlock" /\ obs[t].inc = 1
        /\ mAvailable = mCapacity

\* C18: when the value's constructor throws after construct claimed a slot,
\* the pool is as before the call once the exception has left construct: the
\* slot is on the free list again and the counter is what it was (with one
\* thread: the capacity minus the handles held).
C18_ThrowRestoresPool ==
    \A t \in ThreadIds :
        (SingleThreaded /\ op[t] = "construct" /\ pc[t] = "ret")
            => (item[t] \in FreeSet /\ mAvailable = mCapacity - NonNull(handles))

====
